---- MODULE Spec2Model ----
(***************************************************************************)
(* Model of sphinx_a4doc/model/impl.py: the model cache (ModelCacheImpl),  *)
(* the meta pass (MetaLoader), the rule builders (RuleLoader and its two   *)
(* subclasses) and the documentation extractor (RuleLoader.load_docs).     *)
(*                                                                         *)
(* The external ANTLR lexer/parser is a black box: a grammar text is       *)
(* represented by what the parser yields for it, i.e. the number of syntax *)
(* errors it reports and the parse tree (prequel constructs, lexer rule    *)
(* specs, parser rule specs).  The file system is a fixed map from         *)
(* normalized absolute paths to such texts.                                *)
(***************************************************************************)
EXTENDS Integers, Sequences, FiniteSets, TLC

VARIABLES
    fs,        \* the file system: normalized absolute path -> grammar text, or Missing
    loaded,    \* ModelCacheImpl._loaded: normalized absolute path -> model (heap index)
    models,    \* the heap of ModelImpl instances, in creation order
    stack,     \* the chain of in-progress loads (innermost last)
    result,    \* what the last finished top-level call gave back to the user
    before,    \* the running/last top-level call: its arguments and the state it was made in
    diag,      \* number of logger.error calls so far
    parses,    \* number of _do_load invocations so far
    calls,     \* number of top-level from_file / from_text calls so far
    vstack,    \* rule builder: the results of the visited sub-trees not yet combined
    last,      \* rule builder: the last combinator applied, its arguments and result
    scan       \* documentation extractor: the tokens, the position and the locals of load_docs

cacheVars == <<fs, loaded, models, stack, result, before, diag, parses, calls>>

vars == <<fs, loaded, models, stack, result, before, diag, parses, calls, vstack, last, scan>>

----------------------------------------------------------------------------
(* Bounds *)

MaxCalls == 2
MaxDepth == 3
MaxStack == 2
MaxNodes == 5
MaxTokens == 2

----------------------------------------------------------------------------
(* Rule content trees (RuleBase.RuleContent and its variants) *)

Node(kind, kids, text) == [kind |-> kind, kids |-> kids, text |-> text]

EMPTY == Node("Empty", <<>>, "")
WILDCARD == Node("Wildcard", <<>>, "")
NONE == Node("None", <<>>, "")
Literal(content) == Node("Literal", <<>>, content)
CharSet(content) == Node("CharSet", <<>>, content)
Range(start, end) == Node("Range", <<>>, start \o ".." \o end)
Reference(name) == Node("Reference", <<>>, name)
Negation(child) == Node("Negation", <<child>>, "")
Maybe(child) == Node("Maybe", <<child>>, "")
OnePlus(child) == Node("OnePlus", <<child>>, "")
ZeroPlus(child) == Node("ZeroPlus", <<child>>, "")
Sequence(children) == Node("Sequence", children, "")
Alternative(children) == Node("Alternative", children, "")

RECURSIVE Size(_)
RECURSIVE SizeAll(_)
\* number of nodes of a tree
Size(t) == 1 + SizeAll(t.kids)
SizeAll(ts) == IF ts = <<>> THEN 0 ELSE Size(Head(ts)) + SizeAll(Tail(ts))

----------------------------------------------------------------------------
(* RuleLoader: the combinators *)

\* a suffix is the text of the ebnfSuffix node, a sequence of characters;
\* NoSuffix stands for None
NoSuffix == <<>>

StartsWith(text, prefix) ==
    Len(text) >= Len(prefix) /\ SubSeq(text, 1, Len(prefix)) = prefix

\* RuleLoader.wrap_suffix
wrap_suffix(element, suffix) ==
    IF element = EMPTY THEN element
    ELSE IF suffix = NoSuffix THEN element
    ELSE IF StartsWith(suffix, <<"?">>)
         THEN IF element.kind = "Maybe" THEN element ELSE Maybe(element)
    ELSE IF StartsWith(suffix, <<"+">>) THEN OnePlus(element)
    ELSE IF StartsWith(suffix, <<"*">>) THEN ZeroPlus(element)
    ELSE element

\* faulty variant: an empty alternative is dropped without being recorded
AltIterationForgetting(st, visited) ==
    LET unwrapped == IF visited.kind = "Maybe" THEN visited.kids[1] ELSE visited
        seen == st.has_empty_alt \/ visited.kind = "Maybe"
    IN  IF unwrapped = EMPTY THEN [has_empty_alt |-> seen, alts |-> st.alts]
        ELSE IF unwrapped.kind = "Alternative"
             THEN [has_empty_alt |-> seen, alts |-> st.alts \o unwrapped.kids]
        ELSE [has_empty_alt |-> seen, alts |-> Append(st.alts, unwrapped)]

\* RuleLoader.make_alt_rule, lines 231-240: one iteration of the loop
AltIteration(st, visited) ==
    LET unwrapped == IF visited.kind = "Maybe" THEN visited.kids[1] ELSE visited
        seen == st.has_empty_alt \/ visited.kind = "Maybe"
    IN  IF unwrapped = EMPTY THEN [has_empty_alt |-> TRUE, alts |-> st.alts]
        ELSE IF unwrapped.kind = "Alternative"
             THEN [has_empty_alt |-> seen, alts |-> st.alts \o unwrapped.kids]
        ELSE [has_empty_alt |-> seen, alts |-> Append(st.alts, unwrapped)]

RECURSIVE AltLoop(_, _)
AltLoop(st, content) ==
    IF content = <<>> THEN st ELSE AltLoop(AltIteration(st, Head(content)), Tail(content))

\* RuleLoader.make_alt_rule, lines 242-254
AltResult(st) ==
    IF Len(st.alts) = 0 THEN EMPTY
    ELSE IF Len(st.alts) = 1 /\ st.has_empty_alt THEN Maybe(st.alts[1])
    ELSE IF Len(st.alts) = 1 THEN st.alts[1]
    ELSE IF st.has_empty_alt THEN Maybe(Alternative(st.alts))
    ELSE Alternative(st.alts)

\* RuleLoader.make_alt_rule, applied to the results of visiting its content
make_alt_rule(content) ==
    AltResult(AltLoop([has_empty_alt |-> FALSE, alts |-> <<>>], content))

\* faulty variant: no flattening of nested sequences
SeqIterationNesting(elements, visited) == Append(elements, visited)

\* RuleLoader.make_seq_rule, lines 259-263: one iteration of the loop
SeqIteration(elements, visited) ==
    IF visited.kind = "Sequence" THEN elements \o visited.kids ELSE Append(elements, visited)

RECURSIVE SeqLoop(_, _)
SeqLoop(elements, content) ==
    IF content = <<>> THEN elements ELSE SeqLoop(SeqIteration(elements, Head(content)), Tail(content))

\* RuleLoader.make_seq_rule, applied to the results of visiting its content
make_seq_rule(content) ==
    LET elements == SeqLoop(<<>>, content)
    IN  IF Len(elements) = 1 THEN elements[1] ELSE Sequence(elements)

----------------------------------------------------------------------------
(* Strings: a text is a sequence of characters *)

Whitespace == {" ", "\t", "\n", "\r", "\f"}

LowerCase == {"a", "b", "c", "d", "e", "f", "g", "h", "i", "j", "k", "l", "m", "n", "o", "p", "q", "r", "s", "t", "u", "v", "w", "x", "y", "z"}
UpperCase == {"A", "B", "C", "D", "E", "F", "G", "H", "I", "J", "K", "L", "M", "N", "O", "P", "Q", "R", "S", "T", "U", "V", "W", "X", "Y", "Z"}
Digits == {"0", "1", "2", "3", "4", "5", "6", "7", "8", "9"}

DigitValue(c) ==
    CASE c = "0" -> 0 [] c = "1" -> 1 [] c = "2" -> 2 [] c = "3" -> 3 [] c = "4" -> 4
      [] c = "5" -> 5 [] c = "6" -> 6 [] c = "7" -> 7 [] c = "8" -> 8 [] c = "9" -> 9

RECURSIVE LStrip(_)
\* str.lstrip
LStrip(text) ==
    IF text # <<>> /\ Head(text) \in Whitespace THEN LStrip(Tail(text)) ELSE text

RECURSIVE RStrip(_)
\* str.rstrip
RStrip(text) ==
    IF text # <<>> /\ text[Len(text)] \in Whitespace
    THEN RStrip(SubSeq(text, 1, Len(text) - 1)) ELSE text

\* str.strip
Strip(text) == LStrip(RStrip(text))

\* text[from:] and text[:-drop], with Python's clipping (from counts from 0)
SliceFrom(text, from) == SubSeq(text, from + 1, Len(text))
SliceDropLast(text, drop) == SubSeq(text, 1, Len(text) - drop)

RECURSIVE SkipWhile(_, _, _)
\* the first index at or after i whose character is not in chars
SkipWhile(text, i, chars) ==
    IF i <= Len(text) /\ text[i] \in chars THEN SkipWhile(text, i + 1, chars) ELSE i

RECURSIVE LineEnd(_, _)
\* the first index at or after i that holds a line break
LineEnd(text, i) ==
    IF i <= Len(text) /\ text[i] # "\n" THEN LineEnd(text, i + 1) ELSE i

RECURSIVE SplitLines(_)
\* str.splitlines
SplitLines(text) ==
    IF text = <<>> THEN <<>>
    ELSE LET e == LineEnd(text, 1)
         IN  <<SubSeq(text, 1, e - 1)>> \o SplitLines(SubSeq(text, e + 1, Len(text)))

RECURSIVE Join(_, _)
\* sep.join(lines)
Join(lines, sep) ==
    IF lines = <<>> THEN <<>>
    ELSE IF Len(lines) = 1 THEN lines[1]
    ELSE lines[1] \o sep \o Join(Tail(lines), sep)

RECURSIVE Digits10(_, _)
\* the value of a run of decimal digits, underscores skipped
Digits10(text, acc) ==
    IF text = <<>> THEN acc
    ELSE IF Head(text) = "_" THEN Digits10(Tail(text), acc)
    ELSE Digits10(Tail(text), 10 * acc + DigitValue(Head(text)))

\* int(text): an optional sign, then decimal digits, single underscores
\* allowed between digits; anything else is a ValueError
ParseInt(text) ==
    LET t == Strip(text)
        signed == t # <<>> /\ t[1] \in {"+", "-"}
        body == IF signed THEN Tail(t) ELSE t
        wellformed ==
            /\ body # <<>>
            /\ \A i \in 1..Len(body) : body[i] \in Digits \cup {"_"}
            /\ body[1] # "_" /\ body[Len(body)] # "_"
            /\ \A i \in 1..(Len(body) - 1) : ~(body[i] = "_" /\ body[i + 1] = "_")
    IN  IF wellformed
        THEN [ok |-> TRUE, val |-> IF signed /\ t[1] = "-" THEN 0 - Digits10(body, 0) ELSE Digits10(body, 0)]
        ELSE [ok |-> FALSE, val |-> 0]

Str_doc == <<"d", "o", "c">>
Str_nodoc == <<"n", "o", "d", "o", "c">>
Str_inline == <<"i", "n", "l", "i", "n", "e">>
Str_unimportant == <<"u", "n", "i", "m", "p", "o", "r", "t", "a", "n", "t">>
Str_class == <<"c", "l", "a", "s", "s">>
Str_importance == <<"i", "m", "p", "o", "r", "t", "a", "n", "c", "e">>
Str_name == <<"n", "a", "m", "e">>

\* the comment tokens considered
Tok_BareImportance ==
    <<"/", "/", "@", " ", "i", "m", "p", "o", "r", "t", "a", "n", "c", "e", " ", "-", "3">>
Tok_ImportanceNeg ==
    <<"/", "/", "@", " ", "d", "o", "c", ":", "i", "m", "p", "o", "r", "t", "a", "n", "c", "e",
      " ", "-", "3">>
Tok_ImportanceTwo ==
    <<"/", "/", "@", " ", "d", "o", "c", ":", "i", "m", "p", "o", "r", "t", "a", "n", "c", "e",
      " ", "2">>
Tok_ImportanceWord ==
    <<"/", "/", "@", " ", "d", "o", "c", ":", "i", "m", "p", "o", "r", "t", "a", "n", "c", "e",
      " ", "h", "i", "g", "h">>
Tok_NameFoo == <<"/", "/", "@", " ", "d", "o", "c", ":", "n", "a", "m", "e", " ", "F", "o", "o">>
Tok_NameMissing == <<"/", "/", "@", " ", "d", "o", "c", ":", "n", "a", "m", "e">>
Tok_NameBlank == <<"/", "/", "@", "d", "o", "c", " ", ":", " ", "n", "a", "m", "e", " ", " ", "\t">>
Tok_Nodoc == <<"/", "/", "@", " ", "d", "o", "c", ":", "n", "o", "d", "o", "c">>
Tok_InlineArg ==
    <<"/", "/", "@", " ", "d", "o", "c", ":", "i", "n", "l", "i", "n", "e", " ", "y", "e", "s">>
Tok_Unimportant ==
    <<"/", "/", "@", " ", "d", "o", "c", ":", "u", "n", "i", "m", "p", "o", "r", "t", "a", "n",
      "t">>
Tok_ClassBig ==
    <<"/", "/", "@", " ", "d", "o", "c", ":", "c", "l", "a", "s", "s", " ", "b", "i", "g">>
Tok_Bogus == <<"/", "/", "@", " ", "d", "o", "c", ":", "b", "o", "g", "u", "s">>
Tok_BareName == <<"/", "/", "@", " ", "n", "a", "m", "e", " ", "B", "a", "r">>
Tok_DocLine == <<"/", "*", "*", " ", "D", "o", "c", " ", "*", "/">>
Tok_DocBlock ==
    <<"/", "*", "*", "\n", " ", "*", " ", "a", "\n", " ", "*", " ", " ", "b", "\n", " ", "*",
      "/">>

DocTokens ==
    { Tok_BareImportance, Tok_ImportanceNeg, Tok_ImportanceTwo, Tok_ImportanceWord,
      Tok_NameFoo, Tok_NameMissing, Tok_NameBlank, Tok_Nodoc,
      Tok_InlineArg, Tok_Unimportant, Tok_ClassBig, Tok_Bogus,
      Tok_BareName, Tok_DocLine, Tok_DocBlock }

----------------------------------------------------------------------------
(* RuleLoader.load_docs *)

CmdChars == LowerCase \cup UpperCase \cup Digits \cup {"_", "-"}

NoMatch == [matched |-> FALSE, cmd |-> <<>>, ctx |-> <<>>]

\* faulty variant: the pattern without its 'doc:' part: //@\s*(?P<cmd>...)\s*(?P<ctx>.*)
CMD_RE_without_doc(text) ==
    LET cmdStart == SkipWhile(text, 4, Whitespace)
        cmdEnd == SkipWhile(text, cmdStart, CmdChars)
        ctxStart == SkipWhile(text, cmdEnd, Whitespace)
    IN  IF StartsWith(text, <<"/", "/", "@">>) /\ cmdEnd > cmdStart
        THEN [matched |-> TRUE, cmd |-> SubSeq(text, cmdStart, cmdEnd - 1),
              ctx |-> SubSeq(text, ctxStart, LineEnd(text, ctxStart) - 1)]
        ELSE NoMatch

\* CMD_RE.match(text), lines 28-30:
\* //@\s*doc\s*:\s*(?P<cmd>[a-zA-Z0-9_-]+)\s*(?P<ctx>.*)
CMD_RE(text) ==
    LET docStart == SkipWhile(text, 4, Whitespace)
        colon == SkipWhile(text, docStart + 3, Whitespace)
        cmdStart == SkipWhile(text, colon + 1, Whitespace)
        cmdEnd == SkipWhile(text, cmdStart, CmdChars)
        ctxStart == SkipWhile(text, cmdEnd, Whitespace)
    IN  IF /\ StartsWith(text, <<"/", "/", "@">>)
           /\ SubSeq(text, docStart, docStart + 2) = Str_doc
           /\ colon <= Len(text) /\ text[colon] = ":"
           /\ cmdEnd > cmdStart
        THEN [matched |-> TRUE, cmd |-> SubSeq(text, cmdStart, cmdEnd - 1),
              ctx |-> SubSeq(text, ctxStart, LineEnd(text, ctxStart) - 1)]
        ELSE NoMatch

\* None, as the value of name
None == <<"None">>

\* load_docs, lines 271-276, with the number of logger.error and
\* logger.warning calls made so far
InitialLocals ==
    [is_doxygen_nodoc |-> FALSE, is_doxygen_inline |-> FALSE, css_class |-> <<>>,
     importance |-> 1, name |-> None, documentation_lines |-> <<>>,
     errors |-> 0, warnings |-> 0]

\* line 315-316: the argument of a command that takes none
IgnoredArgument(acc, m) ==
    IF m.cmd \notin {Str_name, Str_class, Str_importance} /\ m.ctx # <<>>
    THEN [acc EXCEPT !.warnings = @ + 1] ELSE acc

\* lines 307-311: the name command
NameCommand(acc, m) ==
    IF Strip(m.ctx) = <<>> THEN [acc EXCEPT !.name = Strip(m.ctx), !.errors = @ + 1]
    ELSE [acc EXCEPT !.name = Strip(m.ctx)]

\* lines 298-306: the importance command
ImportanceCommand(acc, m) ==
    LET parsed == ParseInt(Strip(m.ctx))
    IN  IF ~parsed.ok THEN [acc EXCEPT !.errors = @ + 1]
        ELSE [acc EXCEPT !.importance = parsed.val,
                         !.errors = IF parsed.val < 0 THEN @ + 1 ELSE @]

\* lines 282-316: a token that starts with //@
Directive(acc, text) ==
    LET m == CMD_RE(text)
    IN  IF ~m.matched THEN [acc EXCEPT !.errors = @ + 1]
        ELSE IF m.cmd = Str_nodoc THEN IgnoredArgument([acc EXCEPT !.is_doxygen_nodoc = TRUE], m)
        ELSE IF m.cmd = Str_inline THEN IgnoredArgument([acc EXCEPT !.is_doxygen_inline = TRUE], m)
        ELSE IF m.cmd = Str_unimportant THEN IgnoredArgument([acc EXCEPT !.importance = 0], m)
        ELSE IF m.cmd = Str_class THEN [acc EXCEPT !.css_class = Strip(m.ctx)]
        ELSE IF m.cmd = Str_importance THEN ImportanceCommand(acc, m)
        ELSE IF m.cmd = Str_name THEN NameCommand(acc, m)
        ELSE IgnoredArgument([acc EXCEPT !.errors = @ + 1], m)

Blanks == {" ", "\t"}

Indent(line) == SubSeq(line, 1, SkipWhile(line, 1, Blanks) - 1)

RECURSIVE CommonPrefix(_, _)
CommonPrefix(a, b) ==
    IF a # <<>> /\ b # <<>> /\ Head(a) = Head(b)
    THEN <<Head(a)>> \o CommonPrefix(Tail(a), Tail(b)) ELSE <<>>

RECURSIVE Margin(_, _)
\* textwrap.dedent: the common indentation of the lines that are not blank
Margin(lines, margin) ==
    IF lines = <<>> THEN margin
    ELSE IF Indent(Head(lines)) = Head(lines) THEN Margin(Tail(lines), margin)
    ELSE IF margin = None THEN Margin(Tail(lines), Indent(Head(lines)))
    ELSE Margin(Tail(lines), CommonPrefix(margin, Indent(Head(lines))))

\* textwrap.dedent, on the lines of the text
Dedent(lines) ==
    LET margin == Margin(lines, None)
    IN  [i \in 1..Len(lines) |->
            IF Indent(lines[i]) = lines[i] THEN <<>>
            ELSE IF margin = None THEN lines[i]
            ELSE SliceFrom(lines[i], Len(margin))]

\* lines 323-339: a comment of several lines
DocBlock(acc, lines) ==
    LET first_line == LStrip(SliceFrom(lines[1], 3))
        rest == Tail(lines)
        closed == [rest EXCEPT ![Len(rest)] = RStrip(SliceDropLast(@, 2))]
        popped == IF closed[Len(closed)] = <<>> THEN SliceDropLast(closed, 1) ELSE closed
        starred == \A i \in 1..Len(popped) : StartsWith(popped[i], <<"*">>)
        body == IF starred THEN [i \in 1..Len(popped) |-> SliceFrom(popped[i], 1)] ELSE popped
        text == Join(Dedent(body), <<"\n">>)
    IN  [acc EXCEPT !.documentation_lines =
            (IF first_line # <<>> THEN Append(@, first_line) ELSE @) \o <<text>>]

\* lines 318-339: any other token is documentation
Documentation(acc, text) ==
    LET split == SplitLines(text)
        lines == [i \in 1..Len(split) |-> Strip(split[i])]
    IN  IF Len(lines) = 1
        THEN [acc EXCEPT !.documentation_lines =
                Append(@, Strip(SliceDropLast(SliceFrom(lines[1], 3), 2)))]
        ELSE DocBlock(acc, lines)

\* lines 278-339: one iteration of the loop over the tokens
DocsIteration(acc, text) ==
    IF StartsWith(text, <<"/", "/", "@">>) THEN Directive(acc, text) ELSE Documentation(acc, text)

RECURSIVE DocsLoop(_, _)
DocsLoop(acc, tokens) ==
    IF tokens = <<>> THEN acc ELSE DocsLoop(DocsIteration(acc, Head(tokens)), Tail(tokens))

\* lines 341-348: what load_docs returns for the locals it ends with
DocInfo(acc) ==
    [css_class |-> acc.css_class, importance |-> acc.importance,
     is_doxygen_inline |-> acc.is_doxygen_inline, is_doxygen_nodoc |-> acc.is_doxygen_nodoc,
     name |-> acc.name, documentation |-> Join(acc.documentation_lines, <<"\n">>)]

\* load_docs
load_docs(tokens) == DocInfo(DocsLoop(InitialLocals, tokens))

\* doc_info['name'] or None (lines 374, 476)
DisplayName(doc_info) == IF doc_info.name = <<>> THEN None ELSE doc_info.name

----------------------------------------------------------------------------
(* LexerRuleLoader and ParserRuleLoader: the visitors *)

\* a node of the parse tree of a rule body
Raw(kind, kids, text, text2, suffix) ==
    [kind |-> kind, kids |-> kids, text |-> text, text2 |-> text2, suffix |-> suffix]

AltList(alts) == Raw("altList", alts, "", "", NoSuffix)
Elements(elements) == Raw("elements", elements, "", "", NoSuffix)
Element(value, suffix) == Raw("element", <<value>>, "", "", suffix)
Action == Raw("action", <<>>, "", "", NoSuffix)
Wildcard == Raw("wildcard", <<>>, "", "", NoSuffix)
Ref(name) == Raw("ref", <<>>, name, "", NoSuffix)
Lit(text) == Raw("lit", <<>>, text, "", NoSuffix)
Set(text) == Raw("charset", <<>>, text, "", NoSuffix)
Chars(start, end) == Raw("range", <<>>, start, end, NoSuffix)
Not(value) == Raw("not", <<value>>, "", "", NoSuffix)

RECURSIVE Visit(_, _)
\* self.visit(ctx) in LexerRuleLoader (lines 391-465) and in
\* ParserRuleLoader (lines 498-562), on a node of a rule body
Visit(domain, ctx) ==
    LET visited == [i \in 1..Len(ctx.kids) |-> Visit(domain, ctx.kids[i])]
    IN  CASE ctx.kind = "altList" -> make_alt_rule(visited)
          [] ctx.kind = "elements" -> make_seq_rule(visited)
          [] ctx.kind = "element" -> wrap_suffix(visited[1], ctx.suffix)
          [] ctx.kind = "action" -> EMPTY
          [] ctx.kind = "wildcard" -> WILDCARD
          [] ctx.kind = "ref" -> Reference(ctx.text)
          [] ctx.kind = "not" -> Negation(visited[1])
          [] ctx.kind = "lit" ->
                IF domain = "parser" THEN Reference(ctx.text)
                ELSE IF ctx.text = "''" THEN EMPTY ELSE Literal(ctx.text)
          [] ctx.kind = "charset" ->
                IF domain = "parser" THEN EMPTY
                ELSE IF ctx.text = "[]" THEN EMPTY ELSE CharSet(ctx.text)
          [] ctx.kind = "range" ->
                IF domain = "parser" THEN EMPTY ELSE Range(ctx.text, ctx.text2)

\* a lexer or parser rule spec of the parse tree
RuleSpec(name, frag, docs, body) == [name |-> name, frag |-> frag, docs |-> docs, body |-> body]

\* ModelImpl.set_lexer_rule, set_parser_rule
SetRule(rules, name, rule) == (name :> rule) @@ rules

\* MetaLoader.visitTokensSpec, lines 187-199
TokenRule(name) ==
    [name |-> name, display_name |-> None, is_literal |-> FALSE, is_fragment |-> FALSE,
     content |-> NONE, is_doxygen_nodoc |-> TRUE, is_doxygen_inline |-> TRUE,
     is_doxygen_important |-> TRUE, documentation |-> <<>>]

\* LexerRuleLoader.visitLexerRuleSpec, lines 361-385
LexerRule(ctx) ==
    LET content == Visit("lexer", ctx.body)
        doc_info == load_docs(ctx.docs)
    IN  [name |-> ctx.name, display_name |-> DisplayName(doc_info), content |-> content,
         is_doxygen_nodoc |-> doc_info.is_doxygen_nodoc,
         is_doxygen_inline |-> doc_info.is_doxygen_inline,
         importance |-> doc_info.importance, css_class |-> doc_info.css_class,
         documentation |-> doc_info.documentation,
         is_fragment |-> ctx.frag, is_literal |-> content.kind = "Literal"]

\* LexerRuleLoader.visitLexerRuleSpec, lines 387-389
RegisterLexerRule(rules, ctx) ==
    LET rule == LexerRule(ctx)
        named == SetRule(rules, rule.name, rule)
    IN  IF rule.is_literal THEN SetRule(named, rule.content.text, rule) ELSE named

\* ParserRuleLoader.visitParserRuleSpec, lines 472-485
ParserRule(ctx) ==
    LET content == Visit("parser", ctx.body)
        doc_info == load_docs(ctx.docs)
    IN  [name |-> ctx.name, display_name |-> DisplayName(doc_info), content |-> content,
         is_doxygen_nodoc |-> doc_info.is_doxygen_nodoc,
         is_doxygen_inline |-> doc_info.is_doxygen_inline,
         importance |-> doc_info.importance, css_class |-> doc_info.css_class,
         documentation |-> doc_info.documentation]

\* ParserRuleLoader.visitParserRuleSpec, line 487
RegisterParserRule(rules, ctx) == SetRule(rules, ctx.name, ParserRule(ctx))

RECURSIVE RegisterTokens(_, _)
\* MetaLoader.visitTokensSpec, the loop of lines 186-201
RegisterTokens(rules, defs) ==
    IF defs = <<>> THEN rules
    ELSE RegisterTokens(SetRule(rules, Head(defs), TokenRule(Head(defs))), Tail(defs))

RECURSIVE RegisterLexerRules(_, _)
\* LexerRuleLoader(model).visit(tree): the lexer rule specs in order
RegisterLexerRules(rules, specs) ==
    IF specs = <<>> THEN rules
    ELSE RegisterLexerRules(RegisterLexerRule(rules, Head(specs)), Tail(specs))

RECURSIVE RegisterParserRules(_, _)
\* ParserRuleLoader(model).visit(tree): the parser rule specs in order
RegisterParserRules(rules, specs) ==
    IF specs = <<>> THEN rules
    ELSE RegisterParserRules(RegisterParserRule(rules, Head(specs)), Tail(specs))

RECURSIVE Logged(_)
\* the logger calls load_docs makes for the rule specs
Logged(specs) ==
    IF specs = <<>> THEN 0
    ELSE LET acc == DocsLoop(InitialLocals, Head(specs).docs)
         IN  acc.errors + acc.warnings + Logged(Tail(specs))

----------------------------------------------------------------------------
(* Paths: a path is a sequence of components; a raw path is relative to    *)
(* the working directory unless marked absolute.                           *)

Cwd == <<"w">>

Front(s) == SubSeq(s, 1, Len(s) - 1)

RECURSIVE NormComps(_, _)
\* os.path.normpath on the components of an absolute path: "." is dropped,
\* ".." removes the component before it (and is dropped at the root).
NormComps(comps, acc) ==
    IF comps = <<>> THEN acc
    ELSE LET c == Head(comps) IN
         IF c = "." THEN NormComps(Tail(comps), acc)
         ELSE IF c = ".." THEN NormComps(Tail(comps), IF acc = <<>> THEN acc ELSE Front(acc))
         ELSE NormComps(Tail(comps), Append(acc, c))

\* os.path.abspath(os.path.normpath(path))
AbsNorm(raw) ==
    NormComps(IF raw.abs THEN raw.comps ELSE Cwd \o raw.comps, <<>>)

\* os.path.dirname of a normalized absolute path
Dirname(path) == Front(path)

\* os.path.join(basedir, name + '.g4')
ImportPath(basedir, name) == [abs |-> TRUE, comps |-> Append(basedir, name \o ".g4")]

----------------------------------------------------------------------------
(* Grammar texts, as the external parser sees them *)

Missing == [exists |-> FALSE]

Opt(name, value) == [kind |-> "option", name |-> name, value |-> value, defs |-> <<>>]
Delegate(value)  == [kind |-> "delegate", name |-> "", value |-> value, defs |-> <<>>]
Tokens(defs)     == [kind |-> "tokens", name |-> "", value |-> "", defs |-> defs]

IsImport(item) ==
    \/ item.kind = "option" /\ item.name = "tokenVocab"
    \/ item.kind = "delegate"

Text(errors, prequel, lexer, parser) ==
    [exists |-> TRUE, errors |-> errors, prequel |-> prequel, lexer |-> lexer, parser |-> parser]

\* the prequels considered: none, a self/peer import by option, a delegate
\* grammar with a tokens block, and two imports after an unrelated option
Prequels ==
    { <<>>,
      <<Opt("tokenVocab", "A")>>,
      <<Delegate("B"), Tokens(<<"T", "U">>)>>,
      <<Opt("language", "Java"), Delegate("C"), Opt("tokenVocab", "B")>> }

\* //@ doc:importance -3
\* X: 'x' 'y'? ;
\* FOO: 'foo' ;
LexerSpecs ==
    << RuleSpec("X", FALSE, <<Tok_ImportanceNeg>>,
            AltList(<<Elements(<<Element(Lit("'x'"), NoSuffix), Element(Lit("'y'"), <<"?">>)>>)>>)),
       RuleSpec("FOO", FALSE, <<>>,
            AltList(<<Elements(<<Element(Lit("'foo'"), NoSuffix)>>)>>)) >>

\* x: X | {action} ;
\* /** Doc */
\* //@ doc:name Foo
\* y: (x | 'foo')* ;
ParserSpecs ==
    << RuleSpec("x", FALSE, <<>>,
            AltList(<<Elements(<<Element(Ref("X"), NoSuffix)>>), Elements(<<Action>>)>>)),
       RuleSpec("y", FALSE, <<Tok_DocLine, Tok_NameFoo>>,
            AltList(<<Elements(<<Element(
                AltList(<<Elements(<<Element(Ref("x"), NoSuffix)>>),
                          Elements(<<Element(Lit("'foo'"), NoSuffix)>>)>>), <<"*">>)>>)>>)) >>

\* texts without syntax errors, and one the parser reports an error for
\* (error recovery still yields a tree holding an import and rules)
Texts ==
    { Text(0, p, LexerSpecs, ParserSpecs) : p \in Prequels }
        \cup { Text(1, <<Opt("tokenVocab", "B")>>, LexerSpecs, ParserSpecs) }

\* the texts given to from_text
InMemoryTexts ==
    { Text(0, <<Opt("tokenVocab", "B")>>, <<>>, <<>>),
      Text(0, <<Delegate("C"), Tokens(<<"T">>), Opt("tokenVocab", "B")>>, LexerSpecs, ParserSpecs),
      Text(2, <<Delegate("B")>>, LexerSpecs, ParserSpecs) }

PathA == <<"w", "A.g4">>
PathB == <<"w", "B.g4">>
PathC == <<"w", "C.g4">>

FilePaths == {PathA, PathB, PathC}

\* the file systems considered: C.g4 never exists
FileSystems ==
    { [p \in FilePaths |-> IF p = PathA THEN a ELSE IF p = PathB THEN b ELSE Missing] :
        a \in Texts \cup {Missing}, b \in Texts \cup {Missing} }

Rel(comps) == [abs |-> FALSE, comps |-> comps]
Abs(comps) == [abs |-> TRUE, comps |-> comps]

RawPaths ==
    { Rel(<<"A.g4">>), Rel(<<".", "A.g4">>), Abs(<<"w", "d", "..", "A.g4">>),
      Rel(<<"B.g4">>), Rel(<<"..", "w", "B.g4">>), Rel(<<"C.g4">>) }

\* os.path.exists
Exists(path) == path \in DOMAIN fs /\ fs[path].exists

\* what is at a path
FileAt(path) == IF path \in DOMAIN fs THEN fs[path] ELSE Missing

----------------------------------------------------------------------------
(* Models *)

NoRules == <<>>

\* ModelImpl.__init__
ModelImpl(path, in_memory) ==
    [path |-> path, in_memory |-> in_memory,
     lexer_rules |-> NoRules, parser_rules |-> NoRules, imports |-> {}]

\* ModelImpl.add_import, once its two assertions have passed
AddImportTo(m, imported) == [m EXCEPT !.imports = @ \cup {imported}]

IsEmptyModel(m) == m.lexer_rules = NoRules /\ m.parser_rules = NoRules /\ m.imports = {}

----------------------------------------------------------------------------
(* The state after construction *)

NoResult == [kind |-> "none", model |-> 0]

NoLast == [op |-> "", args |-> <<>>, out |-> NONE]

NoScan == [tokens |-> <<>>, i |-> 1, acc |-> InitialLocals, doc_info |-> DocInfo(InitialLocals), returned |-> FALSE]

CallRecord(op, raw, path, text) ==
    [op |-> op, raw |-> raw, path |-> path, text |-> text,
     loaded |-> loaded, diag |-> diag, parses |-> parses, nmodels |-> Len(models)]

Init ==
    /\ fs \in FileSystems
    /\ loaded = <<>>
    /\ models = <<>>
    /\ stack = <<>>
    /\ result = NoResult
    /\ before = [op |-> "", raw |-> Rel(<<>>), path |-> <<>>, text |-> Missing,
                 loaded |-> <<>>, diag |-> 0, parses |-> 0, nmodels |-> 0]
    /\ diag = 0
    /\ parses = 0
    /\ calls = 0
    /\ vstack = <<>>
    /\ last = NoLast
    /\ scan = NoScan

----------------------------------------------------------------------------
(* The call stack *)

Top == stack[Len(stack)]

Frame(op, path, text, in_memory) ==
    [op |-> op, path |-> path, text |-> text, in_memory |-> in_memory,
     pc |-> "parse", model |-> 0, idx |-> 1, ret |-> 0]

SetTop(st, f) == [st EXCEPT ![Len(st)] = f]

\* faulty variant: no in-memory test
ImportsAllowedAlways(m) == TRUE

\* MetaLoader.add_import, line 160: the importer is not in-memory
ImportsAllowed(m) == ~m.in_memory

AtImport ==
    /\ stack # <<>>
    /\ Top.pc = "meta"
    /\ Top.idx <= Len(Top.text.prequel)
    /\ IsImport(Top.text.prequel[Top.idx])

\* The path arguments from_file can be called with now: by the user when
\* nothing is in progress, by MetaLoader.add_import (line 163) when the
\* innermost load is at an import of a model that is not in-memory.
Requests ==
    IF stack = <<>>
    THEN IF calls < MaxCalls THEN RawPaths ELSE {}
    ELSE IF AtImport /\ ImportsAllowed(models[Top.model])
         THEN { ImportPath(Dirname(models[Top.model].path), Top.text.prequel[Top.idx].value) }
         ELSE {}

\* A load returns model m: to the user when st (the callers) is empty, else
\* to MetaLoader.add_import of the innermost caller (line 163).
Deliver(st, m) ==
    IF st = <<>>
    THEN /\ result' = [kind |-> "model", model |-> m]
         /\ stack' = st
    ELSE /\ stack' = SetTop(st, [st[Len(st)] EXCEPT !.pc = "add_import", !.ret = m])
         /\ UNCHANGED result

\* a top-level call is counted and the state it was made in is recorded
Count(op, raw, path, text) ==
    IF stack = <<>> THEN calls' = calls + 1 /\ before' = CallRecord(op, raw, path, text)
                    ELSE UNCHANGED <<calls, before>>

\* an exception unwinds every load in progress and reaches the user
Raise(exception) ==
    /\ stack' = <<>>
    /\ result' = [kind |-> exception, model |-> 0]

\* faulty variant: the meta pass stops after the first prequel construct
AfterItemFirstOnly(text, idx) == IF idx < 1 /\ idx < Len(text.prequel) THEN "meta" ELSE "lexer"

\* where the meta pass goes after the prequel construct at index idx
AfterItem(text, idx) == IF idx < Len(text.prequel) THEN "meta" ELSE "lexer"

Advance(f) == [f EXCEPT !.pc = AfterItem(f.text, f.idx), !.idx = f.idx + 1]

----------------------------------------------------------------------------
(* ModelCacheImpl *)

\* faulty variant: a cache that is never consulted
IsMemoizedNever(path) == FALSE

\* line 54: path in self._loaded
IsMemoized(path) == path \in DOMAIN loaded

\* self._loaded[path] = model
Memoize(path, m) == (path :> m) @@ loaded

\* from_file, lines 54-55: the path is memoized
FromFileCached ==
    \E raw \in Requests : LET p == AbsNorm(raw) IN
        /\ IsMemoized(p)
        /\ Count("from_file", raw, p, FileAt(p))
        /\ Deliver(stack, loaded[p])
        /\ UNCHANGED <<vstack, last, scan, fs, loaded, models, diag, parses>>

\* faulty variant: no existence test: opening the file raises
FromFileMissingRaises ==
    \E raw \in Requests : LET p == AbsNorm(raw) IN
        /\ ~IsMemoized(p)
        /\ ~Exists(p)
        /\ Count("from_file", raw, p, FileAt(p))
        /\ Raise("FileNotFoundError")
        /\ UNCHANGED <<vstack, last, scan, fs, loaded, models, diag, parses>>

\* from_file, lines 57-60: the file does not exist
FromFileMissing ==
    \E raw \in Requests : LET p == AbsNorm(raw) IN
        /\ ~IsMemoized(p)
        /\ ~Exists(p)
        /\ Count("from_file", raw, p, FileAt(p))
        /\ diag' = diag + 1
        /\ models' = Append(models, ModelImpl(p, FALSE))
        /\ loaded' = Memoize(p, Len(models) + 1)
        /\ Deliver(stack, Len(models) + 1)
        /\ UNCHANGED <<vstack, last, scan, fs, parses>>

\* faulty variant: a cycle guard: a placeholder is memoized before the load starts
FromFileOpenGuarded ==
    \E raw \in Requests : LET p == AbsNorm(raw) IN
        /\ ~IsMemoized(p)
        /\ Exists(p)
        /\ Len(stack) < MaxDepth
        /\ Count("from_file", raw, p, FileAt(p))
        /\ models' = Append(models, ModelImpl(p, FALSE))
        /\ loaded' = Memoize(p, Len(models) + 1)
        /\ stack' = Append(stack, Frame("from_file", p, fs[p], FALSE))
        /\ UNCHANGED <<vstack, last, scan, fs, result, diag, parses>>

\* from_file, lines 62-63: the file is read and _do_load is entered
FromFileOpen ==
    \E raw \in Requests : LET p == AbsNorm(raw) IN
        /\ ~IsMemoized(p)
        /\ Exists(p)
        /\ Len(stack) < MaxDepth
        /\ Count("from_file", raw, p, FileAt(p))
        /\ stack' = Append(stack, Frame("from_file", p, fs[p], FALSE))
        /\ UNCHANGED <<vstack, last, scan, fs, loaded, models, result, diag, parses>>

\* the same call when the interpreter's recursion limit is reached: the
\* RecursionError unwinds every load in progress and reaches the user
RecursionError ==
    \E raw \in Requests : LET p == AbsNorm(raw) IN
        /\ ~IsMemoized(p)
        /\ Exists(p)
        /\ Len(stack) >= MaxDepth
        /\ Raise("RecursionError")
        /\ UNCHANGED <<vstack, last, scan, fs, loaded, models, before, diag, parses, calls>>

TextPaths == { <<"<in-memory>">>, PathA }

\* from_text, lines 67-72
FromText ==
    \E t \in InMemoryTexts, path \in TextPaths :
        /\ stack = <<>>
        /\ calls < MaxCalls
        /\ Count("from_text", Rel(path), path, t)
        /\ stack' = Append(stack, Frame("from_text", path, t, TRUE))
        /\ UNCHANGED <<vstack, last, scan, fs, loaded, models, result, diag, parses>>

\* faulty variant: the syntax error count is not looked at
AfterParseIgnoringErrors(text) == AfterItem(text, 0)

\* _do_load, lines 91-94: with a syntax error the model is returned as it is
AfterParse(text) == IF text.errors > 0 THEN "done" ELSE AfterItem(text, 0)

\* _do_load, lines 75-92: the external parse (each syntax error is logged
\* by LoggingErrorListener) and the creation of the model
DoLoadParse ==
    /\ stack # <<>>
    /\ Top.pc = "parse"
    /\ parses' = parses + 1
    /\ diag' = diag + Top.text.errors
    /\ models' = Append(models, ModelImpl(Top.path, Top.in_memory))
    /\ stack' = SetTop(stack, [Top EXCEPT !.model = Len(models) + 1, !.pc = AfterParse(Top.text)])
    /\ UNCHANGED <<vstack, last, scan, fs, loaded, result, before, calls>>

\* from_file, lines 63-65, once _do_load has returned
ReturnFromFile ==
    /\ stack # <<>>
    /\ Top.pc = "done"
    /\ Top.op = "from_file"
    /\ loaded' = Memoize(Top.path, Top.model)
    /\ Deliver(Front(stack), Top.model)
    /\ UNCHANGED <<vstack, last, scan, fs, models, before, diag, parses, calls>>

\* faulty variant: from_text memoizes like from_file
ReturnFromTextMemoizing ==
    /\ stack # <<>>
    /\ Top.pc = "done"
    /\ Top.op = "from_text"
    /\ loaded' = Memoize(Top.path, Top.model)
    /\ Deliver(Front(stack), Top.model)
    /\ UNCHANGED <<vstack, last, scan, fs, models, before, diag, parses, calls>>

\* from_text, line 72, once _do_load has returned
ReturnFromText ==
    /\ stack # <<>>
    /\ Top.pc = "done"
    /\ Top.op = "from_text"
    /\ Deliver(Front(stack), Top.model)
    /\ UNCHANGED <<vstack, last, scan, fs, loaded, models, before, diag, parses, calls>>

----------------------------------------------------------------------------
(* MetaLoader *)

AtItem(kindTest(_)) ==
    /\ stack # <<>>
    /\ Top.pc = "meta"
    /\ Top.idx <= Len(Top.text.prequel)
    /\ kindTest(Top.text.prequel[Top.idx])

IsOtherOption(item) == item.kind = "option" /\ item.name # "tokenVocab"
IsTokens(item) == item.kind = "tokens"

\* visitOption, line 176: an option other than tokenVocab
MetaOption ==
    /\ AtItem(IsOtherOption)
    /\ stack' = SetTop(stack, Advance(Top))
    /\ UNCHANGED <<vstack, last, scan, fs, loaded, models, result, before, diag, parses, calls>>

\* visitTokensSpec, lines 184-201
MetaTokens ==
    /\ AtItem(IsTokens)
    /\ models' = [models EXCEPT ![Top.model].lexer_rules =
                      RegisterTokens(@, Top.text.prequel[Top.idx].defs)]
    /\ stack' = SetTop(stack, Advance(Top))
    /\ UNCHANGED <<vstack, last, scan, fs, loaded, result, before, diag, parses, calls>>

\* MetaLoader.add_import, lines 160-161
MetaImportInMemory ==
    /\ AtItem(IsImport)
    /\ ~ImportsAllowed(models[Top.model])
    /\ diag' = diag + 1
    /\ stack' = SetTop(stack, Advance(Top))
    /\ UNCHANGED <<vstack, last, scan, fs, loaded, models, result, before, parses, calls>>

\* ModelImpl.add_import, lines 122-123
AssertsHold(importer, imported) == ~importer.in_memory /\ ~imported.in_memory

\* MetaLoader.add_import, line 164, with the model from_file returned; a
\* failed assertion of ModelImpl.add_import raises AssertionError, which
\* unwinds every load in progress and reaches the user
AddImport ==
    /\ stack # <<>>
    /\ Top.pc = "add_import"
    /\ IF AssertsHold(models[Top.model], models[Top.ret])
       THEN /\ models' = [models EXCEPT ![Top.model] = AddImportTo(@, Top.ret)]
            /\ stack' = SetTop(stack, Advance(Top))
            /\ UNCHANGED result
       ELSE /\ Raise("AssertionError")
            /\ UNCHANGED models
    /\ UNCHANGED <<vstack, last, scan, fs, loaded, before, diag, parses, calls>>

----------------------------------------------------------------------------
(* Rule builders *)

\* _do_load line 95: LexerRuleLoader(model).visit(tree)
LexerRuleLoaderVisit ==
    /\ stack # <<>>
    /\ Top.pc = "lexer"
    /\ models' = [models EXCEPT ![Top.model].lexer_rules = RegisterLexerRules(@, Top.text.lexer)]
    /\ diag' = diag + Logged(Top.text.lexer)
    /\ stack' = SetTop(stack, [Top EXCEPT !.pc = "parser"])
    /\ UNCHANGED <<vstack, last, scan, fs, loaded, result, before, parses, calls>>

\* _do_load lines 96-98: ParserRuleLoader(model).visit(tree)
ParserRuleLoaderVisit ==
    /\ stack # <<>>
    /\ Top.pc = "parser"
    /\ models' = [models EXCEPT ![Top.model].parser_rules = RegisterParserRules(@, Top.text.parser)]
    /\ diag' = diag + Logged(Top.text.parser)
    /\ stack' = SetTop(stack, [Top EXCEPT !.pc = "done"])
    /\ UNCHANGED <<vstack, last, scan, fs, loaded, result, before, parses, calls>>

----------------------------------------------------------------------------

Next ==
    \/ FromFileCached
    \/ FromFileMissing
    \/ FromFileOpen
    \/ RecursionError
    \/ FromText
    \/ DoLoadParse
    \/ ReturnFromFile
    \/ ReturnFromText
    \/ MetaOption
    \/ MetaTokens
    \/ MetaImportInMemory
    \/ AddImport
    \/ LexerRuleLoaderVisit
    \/ ParserRuleLoaderVisit

Spec == Init /\ [][Next]_vars

----------------------------------------------------------------------------
(* The rule builder at work: sub-trees are visited and their results        *)
(* combined, in any order the shape of a rule body allows.                  *)

Atoms == { Reference("a"), Literal("'b'"), EMPTY }

Suffixes == { NoSuffix, <<"?">>, <<"+">>, <<"*">>, <<"*", "?">> }

InitTree ==
    /\ fs = [p \in FilePaths |-> Missing]
    /\ loaded = <<>>
    /\ models = <<>>
    /\ stack = <<>>
    /\ result = NoResult
    /\ before = [op |-> "", raw |-> Rel(<<>>), path |-> <<>>, text |-> Missing,
                 loaded |-> <<>>, diag |-> 0, parses |-> 0, nmodels |-> 0]
    /\ diag = 0
    /\ parses = 0
    /\ calls = 0
    /\ vstack = <<>>
    /\ last = NoLast
    /\ scan = NoScan

TopK(k) == SubSeq(vstack, Len(vstack) - k + 1, Len(vstack))

\* the last k results are replaced by what a combinator makes of them
Combine(op, k, out) ==
    /\ vstack' = Append(SubSeq(vstack, 1, Len(vstack) - k), out)
    /\ SizeAll(vstack') <= MaxNodes
    /\ last' = [op |-> op, args |-> TopK(k), out |-> out]
    /\ UNCHANGED <<scan, cacheVars>>

\* an atom is visited (visitTerminalRef, visitTerminalLit, visitLexerElementAction, ...)
VisitAtom ==
    \E a \in Atoms :
        /\ Len(vstack) < MaxStack
        /\ vstack' = Append(vstack, a)
        /\ SizeAll(vstack') <= MaxNodes
        /\ UNCHANGED <<last, scan, cacheVars>>

\* visitNotElement, visitNotBlock
VisitNot ==
    /\ vstack # <<>>
    /\ Combine("Negation", 1, Negation(vstack[Len(vstack)]))

\* visitLexerElementAtom, visitParserElementBlock, ...
VisitElement ==
    \E suffix \in Suffixes :
        /\ vstack # <<>>
        /\ Combine("wrap_suffix", 1, wrap_suffix(vstack[Len(vstack)], suffix))

\* visitLexerElements, visitAlternative
VisitElements ==
    \E k \in 1..Len(vstack) : Combine("make_seq_rule", k, make_seq_rule(TopK(k)))

\* visitLexerAltList, visitRuleAltList, visitAltList, visitBlockSet
VisitAltList ==
    \E k \in 1..Len(vstack) : Combine("make_alt_rule", k, make_alt_rule(TopK(k)))

NextTree == VisitAtom \/ VisitNot \/ VisitElement \/ VisitElements \/ VisitAltList

SpecTree == InitTree /\ [][NextTree]_vars

----------------------------------------------------------------------------
(* The documentation extractor at work on the comment tokens of one rule *)

RECURSIVE SeqsUpTo(_, _)
\* the sequences over S of length at most n
SeqsUpTo(S, n) ==
    IF n = 0 THEN {<<>>}
    ELSE LET shorter == SeqsUpTo(S, n - 1)
         IN  shorter \cup { Append(t, x) : t \in shorter, x \in S }

InitDocs ==
    /\ fs = [p \in FilePaths |-> Missing]
    /\ loaded = <<>>
    /\ models = <<>>
    /\ stack = <<>>
    /\ result = NoResult
    /\ before = [op |-> "", raw |-> Rel(<<>>), path |-> <<>>, text |-> Missing,
                 loaded |-> <<>>, diag |-> 0, parses |-> 0, nmodels |-> 0]
    /\ diag = 0
    /\ parses = 0
    /\ calls = 0
    /\ vstack = <<>>
    /\ last = NoLast
    /\ scan \in { [NoScan EXCEPT !.tokens = ts] : ts \in SeqsUpTo(DocTokens, MaxTokens) }

\* load_docs, lines 278-339: the next token is looked at
LoadDocsIteration ==
    /\ scan.i <= Len(scan.tokens)
    /\ scan' = [scan EXCEPT !.acc = DocsIteration(@, scan.tokens[scan.i]), !.i = @ + 1]
    /\ UNCHANGED <<vstack, last, cacheVars>>

\* load_docs, lines 341-348: the loop is over
LoadDocsReturn ==
    /\ scan.i > Len(scan.tokens)
    /\ ~scan.returned
    /\ scan' = [scan EXCEPT !.doc_info = DocInfo(scan.acc), !.returned = TRUE]
    /\ UNCHANGED <<vstack, last, cacheVars>>

NextDocs == LoadDocsIteration \/ LoadDocsReturn

SpecDocs == InitDocs /\ [][NextDocs]_vars

----------------------------------------------------------------------------
(* Properties of the model cache *)

\* the step is a call from_file(raw), p being the normalized path
CallsFromFile(raw, p) ==
    /\ raw \in Requests
    /\ p = AbsNorm(raw)
    /\ stack = <<>> => calls' = calls + 1 /\ before'.op = "from_file" /\ before'.raw = raw

\* the step hands model m back to whoever is waiting on top of st
ReturnsTo(st, m) ==
    IF st = <<>>
    THEN stack' = <<>> /\ result' = [kind |-> "model", model |-> m]
    ELSE stack' = [st EXCEPT ![Len(st)] = [st[Len(st)] EXCEPT !.pc = "add_import", !.ret = m]]

EmptyModelAt(p, in_memory) ==
    [path |-> p, in_memory |-> in_memory,
     lexer_rules |-> <<>>, parser_rules |-> <<>>, imports |-> {}]

C1_WriteOnce == \A p \in DOMAIN loaded : p \in DOMAIN loaded' /\ loaded'[p] = loaded[p]

C1_Hit ==
    \A raw \in Requests : \A p \in DOMAIN loaded :
        CallsFromFile(raw, p) =>
            /\ ReturnsTo(stack, loaded[p])
            /\ parses' = parses
            /\ models' = models
            /\ loaded' = loaded

\* C1: once a normalized path has an entry in the cache map, every later
\* from_file call whose path normalizes to it returns that same instance
\* without entering _do_load, and no entry is ever replaced or removed.
C1_CacheMemoization == [][C1_WriteOnce /\ C1_Hit]_vars

\* the second call names A.g4 by another spelling than the key it was
\* memoized under, and gets the instance the first call parsed
C1_Witness ==
    /\ stack = <<>>
    /\ calls = 2
    /\ before.op = "from_file"
    /\ before.raw = Rel(<<".", "A.g4">>)
    /\ PathA \in DOMAIN before.loaded
    /\ result = [kind |-> "model", model |-> before.loaded[PathA]]
    /\ Exists(PathA)
    /\ parses = before.parses
    /\ parses >= 1

\* C2: from_file on a path that is not memoized and does not exist reports
\* exactly one diagnostic, creates an empty model that is not in-memory,
\* memoizes it under the normalized path and returns it, without a parse.
C2_MissingFile ==
    [][\A raw \in Requests : \A p \in {AbsNorm(raw)} :
        (CallsFromFile(raw, p) /\ p \notin DOMAIN loaded /\ ~FileAt(p).exists) =>
            /\ ReturnsTo(stack, Len(models) + 1)
            /\ diag' = diag + 1
            /\ parses' = parses
            /\ models' = Append(models, EmptyModelAt(p, FALSE))
            /\ loaded' = (p :> Len(models) + 1) @@ loaded]_vars

C2_Witness ==
    /\ stack = <<>>
    /\ before.op = "from_file"
    /\ before.path = PathC
    /\ PathC \notin DOMAIN before.loaded
    /\ result.kind = "model"
    /\ loaded[PathC] = result.model
    /\ models[result.model] = EmptyModelAt(PathC, FALSE)
    /\ diag = before.diag + 1
    /\ parses = before.parses

\* a load whose text has a syntax error is the innermost one, has skipped
\* the meta pass and the rule builders, and its model is empty
C3_Frames ==
    \A i \in 1..Len(stack) :
        (stack[i].model # 0 /\ stack[i].text.errors > 0) =>
            /\ i = Len(stack)
            /\ stack[i].pc = "done"
            /\ models[stack[i].model] = EmptyModelAt(stack[i].path, stack[i].in_memory)

\* such a load returns its model at once, from_file memoizing it
C3_Return ==
    (stack # <<>> /\ Top.model # 0 /\ Top.text.errors > 0) =>
        /\ ReturnsTo(Front(stack), Top.model)
        /\ models' = models
        /\ diag' = diag
        /\ parses' = parses
        /\ loaded' = IF Top.op = "from_file" THEN (Top.path :> Top.model) @@ loaded ELSE loaded

\* a finished top-level call on such a text made one parse, logged the
\* syntax errors and nothing else, and gave back an empty model
C3_Result ==
    (/\ stack = <<>>
     /\ before.op # ""
     /\ before.text.exists
     /\ before.text.errors > 0
     /\ before.path \notin DOMAIN before.loaded \/ before.op = "from_text") =>
        /\ result.kind = "model"
        /\ result.model = before.nmodels + 1
        /\ Len(models) = before.nmodels + 1
        /\ models[result.model] = EmptyModelAt(before.path, before.op = "from_text")
        /\ parses = before.parses + 1
        /\ diag = before.diag + before.text.errors

\* C3: if the parser reports a syntax error, the returned model has no
\* rules and no imports, nothing is loaded on its behalf, the call still
\* returns a model, and from_file memoizes it under the path.
C3_SyntaxErrors == [][C3_Frames' /\ C3_Return /\ C3_Result']_vars

C3_Witness ==
    /\ stack = <<>>
    /\ before.op = "from_file"
    /\ before.path = PathA
    /\ PathA \notin DOMAIN before.loaded
    /\ fs[PathA] = Text(1, <<Opt("tokenVocab", "B")>>, LexerSpecs, ParserSpecs)
    /\ Exists(PathB)
    /\ result.kind = "model"
    /\ loaded[PathA] = result.model
    /\ models[result.model] = EmptyModelAt(PathA, FALSE)
    /\ PathB \notin DOMAIN loaded

\* C4: from_text never memoizes: during and after a from_text call the
\* cache map is what it was when the call was made, and the call returns
\* a model that is in-memory.
C4_FromTextNeverMemoizes ==
    before.op = "from_text" =>
        /\ loaded = before.loaded
        /\ stack = <<>> => result.kind = "model" /\ models[result.model].in_memory

\* from_text, given the path of a memoized file and a text that declares
\* imports, has returned and the map is unchanged
C4_Witness ==
    /\ stack = <<>>
    /\ before.op = "from_text"
    /\ before.path = PathA
    /\ before.text.errors = 0
    /\ Len(before.text.prequel) = 3
    /\ PathA \in DOMAIN before.loaded
    /\ loaded = before.loaded
    /\ result.kind = "model"
    /\ models[result.model].in_memory

NumImports(prequel) ==
    Cardinality({ i \in 1..Len(prequel) :
        \/ prequel[i].kind = "delegate"
        \/ prequel[i].kind = "option" /\ prequel[i].name = "tokenVocab" })

\* C5: an in-memory model never has an import; each import declaration met
\* by a from_text load is one diagnostic and nothing else (no file is
\* loaded), and the assertions of ModelImpl.add_import never fail.
C5_InMemoryImports ==
    /\ \A i \in 1..Len(models) : models[i].in_memory => models[i].imports = {}
    /\ result.kind # "AssertionError"
    /\ (stack # <<>> /\ stack[1].op = "from_text") => Len(stack) = 1
    /\ (stack = <<>> /\ before.op = "from_text") =>
        /\ result.kind = "model"
        /\ models[result.model].imports = {}
        /\ parses = before.parses + 1
        /\ Len(models) = before.nmodels + 1
        /\ diag = before.diag + before.text.errors
                    + (IF before.text.errors = 0
                       THEN NumImports(before.text.prequel)
                                + Logged(before.text.lexer) + Logged(before.text.parser)
                       ELSE 0)

\* the text holding a single tokenVocab option: no import, one diagnostic
C5_Witness ==
    /\ stack = <<>>
    /\ before.op = "from_text"
    /\ before.text = Text(0, <<Opt("tokenVocab", "B")>>, <<>>, <<>>)
    /\ result.kind = "model"
    /\ models[result.model].imports = {}
    /\ models[result.model].in_memory
    /\ diag = before.diag + 1

Declares(text, name) ==
    \E i \in 1..Len(text.prequel) :
        /\ text.prequel[i].value = name
        /\ \/ text.prequel[i].kind = "delegate"
           \/ text.prequel[i].kind = "option" /\ text.prequel[i].name = "tokenVocab"

\* A.g4 and B.g4 exist, have no syntax error, and import each other
Cyclic ==
    /\ fs[PathA].exists /\ fs[PathA].errors = 0 /\ Declares(fs[PathA], "B")
    /\ fs[PathB].exists /\ fs[PathB].errors = 0 /\ Declares(fs[PathB], "A")

C10_NeverMemoized ==
    /\ PathA \notin DOMAIN loaded
    /\ PathB \notin DOMAIN loaded
    /\ ~(stack = <<>> /\ before.op = "from_file" /\ before.path \in {PathA, PathB}
            /\ result.kind = "model")

\* a call for A or B starts another load on top of those in progress, up
\* to the recursion limit; no load of the chain ever returns
C10_Grows ==
    /\ \A raw \in Requests : \A p \in {PathA, PathB} :
        CallsFromFile(raw, p) =>
            IF Len(stack) < MaxDepth
            THEN /\ Len(stack') = Len(stack) + 1
                 /\ SubSeq(stack', 1, Len(stack)) = stack
                 /\ stack'[Len(stack')].path = p
                 /\ stack'[Len(stack')].pc = "parse"
            ELSE stack' = <<>> /\ result'.kind = "RecursionError"
    /\ (stack # <<>> /\ stack[1].op = "from_file" /\ stack[1].path \in {PathA, PathB}) =>
            \/ Len(stack') >= Len(stack)
            \/ stack' = <<>> /\ result'.kind = "RecursionError"

\* C10: there is no cycle guard: when A and B import each other,
\* from_file(A) never returns a model, every nested from_file finds its
\* path absent from the map and starts another load, so the chain of loads
\* in progress only grows, and neither A nor B is ever memoized.
C10_NoCycleGuard == [][Cyclic => (C10_NeverMemoized' /\ C10_Grows)]_vars

\* the chain A, B, A, ... has reached the deepest nesting considered
C10_Witness ==
    /\ Cyclic
    /\ Len(stack) = MaxDepth
    /\ \A i \in 1..Len(stack) :
        /\ stack[i].op = "from_file"
        /\ stack[i].path = IF i % 2 = 1 THEN PathA ELSE PathB
    /\ PathA \notin DOMAIN loaded
    /\ PathB \notin DOMAIN loaded

\* the path from_file is called with for the import declared by item in
\* the grammar at path
C11_Target(path, item) == AbsNorm(ImportPath(Dirname(path), item.value))

\* the paths the grammar at p imports, if it is loaded at all
C11_Imports(p) ==
    IF Exists(p) /\ fs[p].errors = 0
    THEN { C11_Target(p, fs[p].prequel[k]) :
                k \in { j \in 1..Len(fs[p].prequel) : IsImport(fs[p].prequel[j]) } }
    ELSE {}

RECURSIVE C11_Reach(_, _)
\* the paths reached from those of S by following at most n imports
C11_Reach(S, n) ==
    IF n = 0 THEN S ELSE C11_Reach(S \cup UNION { C11_Imports(q) : q \in S }, n - 1)

\* no grammar reached from p imports itself, directly or not
C11_Acyclic(p) ==
    \A q \in C11_Reach({p}, Cardinality(FilePaths)) :
        q \notin C11_Reach(C11_Imports(q), Cardinality(FilePaths))

\* what holds of the i-th load in progress, a from_file of an error-free text
C11_Load(i) ==
    LET f == stack[i]
        m == models[f.model]
        imports == { k \in 1..Len(f.text.prequel) : IsImport(f.text.prequel[k]) }
        target(k) == C11_Target(f.path, f.text.prequel[k])
        resolved(k) == target(k) \in DOMAIN loaded /\ loaded[target(k)] \in m.imports
        lexerBuilt == \A k \in 1..Len(f.text.lexer) : f.text.lexer[k].name \in DOMAIN m.lexer_rules
        lexerUntouched == \A k \in 1..Len(f.text.lexer) : f.text.lexer[k].name \notin DOMAIN m.lexer_rules
        parserBuilt == \A k \in 1..Len(f.text.parser) : f.text.parser[k].name \in DOMAIN m.parser_rules
    IN  /\ f.path \notin DOMAIN loaded
        /\ i < Len(stack) =>
                /\ f.pc = "meta"
                /\ f.idx \in imports
                /\ stack[i + 1].op = "from_file"
                /\ stack[i + 1].path = target(f.idx)
        /\ f.pc \in {"meta", "add_import"} =>
                /\ \A k \in imports : k < f.idx => resolved(k)
                /\ lexerUntouched
                /\ m.parser_rules = NoRules
        /\ f.pc = "add_import" =>
                /\ i = Len(stack)
                /\ target(f.idx) \in DOMAIN loaded
                /\ loaded[target(f.idx)] = f.ret
        /\ f.pc \in {"lexer", "parser", "done"} => \A k \in imports : resolved(k)
        /\ f.pc = "lexer" => lexerUntouched /\ m.parser_rules = NoRules
        /\ f.pc = "parser" => lexerBuilt /\ m.parser_rules = NoRules
        /\ f.pc = "done" => lexerBuilt /\ parserBuilt

C11_InProgress ==
    \A i \in 1..Len(stack) :
        (stack[i].op = "from_file" /\ stack[i].text.errors = 0 /\ stack[i].pc # "parse")
            => C11_Load(i)

\* the step that memoizes an error-free grammar is the return of its load,
\* with both rule builders done and every path it imports in the map already
C11_MemoizedLast ==
    \A p \in FilePaths :
        (p \notin DOMAIN loaded /\ p \in DOMAIN loaded' /\ Exists(p) /\ fs[p].errors = 0) =>
            /\ stack # <<>>
            /\ Top.op = "from_file" /\ Top.path = p /\ Top.pc = "done"
            /\ loaded'[p] = Top.model
            /\ C11_Imports(p) \subseteq DOMAIN loaded
            /\ models[Top.model].imports = { loaded[q] : q \in C11_Imports(p) }
            /\ Len(stack') = Len(stack) - 1

\* C11: loads are depth-first and synchronous: while from_file(A) of an
\* error-free A is in progress, A is not in the map; the load of each
\* grammar B it imports has returned, with B in the map and among the
\* imports of A, before the lexer rule builder or the parser rule builder
\* registers a rule of A; the lexer rule builder runs before the parser
\* rule builder; and A enters the map at the return of its load, after
\* every B. (In an import cycle no load gets as far as the rule builders.)
C11_DepthFirst == []C11_InProgress /\ [][C11_MemoizedLast]_vars

\* from_file(A) has returned: A declares the delegate grammar B, the load
\* of the error-free B took place within the call, both are in the map
C11_Witness ==
    /\ stack = <<>>
    /\ before.op = "from_file"
    /\ before.path = PathA
    /\ C11_Acyclic(PathA)
    /\ fs[PathA].exists /\ fs[PathA].errors = 0
    /\ fs[PathA].prequel = <<Delegate("B"), Tokens(<<"T", "U">>)>>
    /\ fs[PathB].exists /\ fs[PathB].errors = 0
    /\ PathB \notin DOMAIN before.loaded
    /\ result.kind = "model"
    /\ loaded[PathA] = result.model
    /\ PathB \in DOMAIN loaded
    /\ models[result.model].imports = {loaded[PathB]}
    /\ "X" \in DOMAIN models[result.model].lexer_rules
    /\ "y" \in DOMAIN models[result.model].parser_rules

----------------------------------------------------------------------------
(* Properties of the rule builder *)

RECURSIVE WellFormed(_)
\* no Sequence directly in a Sequence, no Alternative directly in an
\* Alternative, at least two children in either, no Maybe directly in a Maybe
WellFormed(t) ==
    /\ t.kind \in {"Sequence", "Alternative"} =>
        /\ Len(t.kids) >= 2
        /\ \A i \in 1..Len(t.kids) : t.kids[i].kind # t.kind
    /\ t.kind = "Maybe" => t.kids[1].kind # "Maybe"
    /\ \A i \in 1..Len(t.kids) : WellFormed(t.kids[i])

\* C6: every tree built by composing make_seq_rule, make_alt_rule and
\* wrap_suffix over atom results (each combinator given at least one
\* sub-result) has no Sequence directly inside a Sequence, no Alternative
\* directly inside an Alternative, at least two children in each of them,
\* and no Maybe directly inside a Maybe.
C6_TreeInvariant ==
    /\ \A i \in 1..Len(vstack) : WellFormed(vstack[i])
    /\ WellFormed(last.out)

\* a Sequence given to make_seq_rule with a further element has been flattened
C6_Witness ==
    /\ last.op = "make_seq_rule"
    /\ last.args = <<Sequence(<<Reference("a"), Literal("'b'")>>), Reference("a")>>
    /\ last.out = Sequence(<<Reference("a"), Literal("'b'"), Reference("a")>>)

C7_Unwrap(c) == IF c.kind = "Maybe" THEN c.kids[1] ELSE c

\* an empty alternative was present
C7_Recorded(args) ==
    \E i \in 1..Len(args) : args[i].kind = "Maybe" \/ C7_Unwrap(args[i]).kind = "Empty"

RECURSIVE C7_Children(_)
\* the children that remain, in order
C7_Children(args) ==
    IF args = <<>> THEN <<>>
    ELSE LET u == C7_Unwrap(Head(args))
         IN  (IF u.kind = "Empty" THEN <<>>
              ELSE IF u.kind = "Alternative" THEN u.kids
              ELSE <<u>>) \o C7_Children(Tail(args))

C7_Expected(args) ==
    LET children == C7_Children(args)
    IN  IF Len(children) = 0 THEN Node("Empty", <<>>, "")
        ELSE IF Len(children) = 1
             THEN IF C7_Recorded(args) THEN Node("Maybe", <<children[1]>>, "") ELSE children[1]
        ELSE IF C7_Recorded(args)
             THEN Node("Maybe", <<Node("Alternative", children, "")>>, "")
        ELSE Node("Alternative", children, "")

\* C7: make_alt_rule unwraps Maybe children and drops Empty children,
\* recording an empty alternative, splices the children of Alternative
\* children, and yields Empty for no child, the child (in Maybe if
\* recorded) for one, else the Alternative (in Maybe if recorded); so
\* [a, Empty] gives Maybe(a), [a, Maybe(b)] gives Maybe(Alternative(a, b))
\* and [Empty] gives Empty.
C7_AltAbsorption ==
    last.op = "make_alt_rule" =>
        /\ last.out = C7_Expected(last.args)
        /\ last.args = <<Reference("a"), EMPTY>> => last.out = Maybe(Reference("a"))
        /\ last.args = <<Reference("a"), Maybe(Literal("'b'"))>> =>
                last.out = Maybe(Alternative(<<Reference("a"), Literal("'b'")>>))
        /\ last.args = <<EMPTY>> => last.out = EMPTY

C7_Witness ==
    /\ last.op = "make_alt_rule"
    /\ last.args = <<Reference("a"), Maybe(Literal("'b'"))>>
    /\ last.out = Maybe(Alternative(<<Reference("a"), Literal("'b'")>>))

----------------------------------------------------------------------------
(* Properties of the documentation extractor *)

\* the diagnostics load_docs has logged
Diagnostics == scan.acc.errors + scan.acc.warnings

\* C8, as stated: the comment token `//@ importance -3` is a directive: it
\* sets the importance of the rule to -3 and logs exactly one diagnostic.
C8_BareDirective ==
    (scan.returned /\ scan.tokens = <<Tok_BareImportance>>)
        => (scan.doc_info.importance = -3 /\ Diagnostics = 1)

RECURSIVE C8_Importance(_, _)
\* the importance the last `//@ doc:importance <integer>` or
\* `//@ doc:unimportant` among the tokens asks for, starting from the given one
C8_Importance(importance, tokens) ==
    IF tokens = <<>> THEN importance
    ELSE C8_Importance(CASE Head(tokens) = Tok_ImportanceNeg -> -3
                         [] Head(tokens) = Tok_ImportanceTwo -> 2
                         [] Head(tokens) = Tok_Unimportant -> 0
                         [] OTHER -> importance,
                       Tail(tokens))

\* C8, amended: a directive is a token of the form
\* `//@ doc:<command> <rest-of-line>`. After any sequence of comment tokens
\* the importance is the one of the last `//@ doc:importance <integer>`
\* or `//@ doc:unimportant` token (1 if there is none); the single token `//@ doc:importance -3`
\* gives importance -3 and exactly one diagnostic, and the single token
\* `//@ importance -3` leaves the importance at 1 and is reported with
\* exactly one diagnostic.
C8_DocDirective ==
    scan.returned =>
        /\ scan.doc_info.importance = C8_Importance(1, scan.tokens)
        /\ scan.tokens = <<Tok_ImportanceNeg>> =>
                (scan.doc_info.importance = -3 /\ Diagnostics = 1)
        /\ scan.tokens = <<Tok_BareImportance>> =>
                (scan.doc_info.importance = 1 /\ Diagnostics = 1)

\* load_docs has returned for the single token `//@ doc:importance -3`
C8_Witness ==
    /\ scan.returned
    /\ scan.tokens = <<Tok_ImportanceNeg>>
    /\ scan.doc_info.importance = -3
    /\ Diagnostics = 1

RECURSIVE C9_Name(_, _)
\* the trimmed argument of the last name directive with a non-empty argument
C9_Name(name, tokens) ==
    IF tokens = <<>> THEN name
    ELSE C9_Name(IF Head(tokens) = Tok_NameFoo THEN <<"F", "o", "o">> ELSE name, Tail(tokens))

\* C9: a name directive without an argument is reported with one diagnostic
\* and ignored: after any sequence of comment tokens the display name is the
\* trimmed argument of the last name directive that had a non-empty
\* argument, and None if there was none.
C9_NameIgnored ==
    scan.returned =>
        /\ DisplayName(scan.doc_info) = C9_Name(None, scan.tokens)
        /\ (\A i \in 1..Len(scan.tokens) : scan.tokens[i] \in {Tok_NameMissing, Tok_NameBlank})
                => Diagnostics = Len(scan.tokens)
====
